---- MODULE Spec2Model ----
(***************************************************************************)
(* A model of the MBTA reliability project's schedule catalog              *)
(* (class_schedules.py) and of its daily feature builder                   *)
(* (src/models/feature_engineering.py, src/models/model.py).               *)
(*                                                                         *)
(* Python strings are TLA+ strings, a pandas table is a function from      *)
(* column names to columns (sequences of cells, in row order).             *)
(***************************************************************************)
EXTENDS Integers, Sequences, FiniteSets, TLC

VARIABLES
    call,       \* the schedule function called and its arguments
    sched_pc,   \* "idle" | "called" | "returned"
    ret,        \* the value the schedule function returned
    input,      \* the table the caller passes to the feature builder
    df,         \* the feature builder's working table, returned at the end
    pc,         \* the stage of the feature build that has completed
    err,        \* the exception a stage raised, or NoError
    order,      \* the row order the last sort_values produced
    passed,     \* the table object the last stage was handed, as the stage left it
    train,      \* the local variables of train_model
    frames,     \* for every concurrent caller, the locals of its schedule call
    catalog     \* the module-level list STANDARD_PATTERNS the callers share

schedule_vars == <<call, sched_pc, ret>>
feature_vars == <<input, df, pc, err, order, passed>>
train_vars == <<train>>
concurrent_vars == <<frames, catalog>>
vars == <<call, sched_pc, ret, input, df, pc, err, order, passed, train, frames, catalog>>

(***************************************************************************)
(* class_schedules.py                                                      *)
(***************************************************************************)
Pattern(days, start, end, duration_min, type) ==
    [days |-> days, start |-> start, end |-> end,
     duration_min |-> duration_min, type |-> type]

STANDARD_PATTERNS == <<
    Pattern("MWF", "09:05", "09:55", 50, "A"),
    Pattern("MWF", "10:10", "11:00", 50, "A"),
    Pattern("MWF", "12:20", "13:10", 50, "A"),
    Pattern("MWF", "13:25", "14:15", 50, "A"),
    Pattern("MWF", "14:30", "15:20", 50, "A"),
    Pattern("MWF", "16:40", "17:30", 50, "A"),
    Pattern("MTWRF", "08:00", "10:45", 165, "B"),
    Pattern("F", "11:15", "14:00", 165, "B"),
    Pattern("TR", "12:30", "15:15", 165, "B"),
    Pattern("MWF", "14:30", "17:15", 165, "B"),
    Pattern("TR", "15:30", "18:15", 165, "B"),
    Pattern("MTWRF", "18:30", "21:15", 165, "B"),
    Pattern("TR", "08:00", "09:15", 75, "C"),
    Pattern("TR", "09:30", "10:45", 75, "C"),
    Pattern("TR", "11:00", "12:15", 75, "C"),
    Pattern("TR", "12:30", "13:45", 75, "C"),
    Pattern("TR", "14:00", "15:15", 75, "C"),
    Pattern("TR", "15:30", "16:45", 75, "C"),
    Pattern("TR", "17:00", "18:15", 75, "C"),
    Pattern("MWF", "08:00", "09:45", 105, "D"),
    Pattern("MWF", "10:10", "11:55", 105, "D"),
    Pattern("MWF", "12:20", "14:05", 105, "D"),
    Pattern("MWF", "14:30", "16:15", 105, "D"),
    Pattern("MWF", "16:30", "18:15", 105, "D"),
    Pattern("TR", "09:00", "10:45", 105, "D"),
    Pattern("TR", "13:30", "15:15", 105, "D"),
    Pattern("TR", "15:30", "17:15", 105, "D"),
    Pattern("MTWRF", "08:00", "08:50", 50, "E"),
    Pattern("MTWRF", "11:15", "12:05", 50, "E"),
    Pattern("MTWRF", "15:35", "16:25", 50, "E") >>

\* A day map that also gives Saturday a letter of the catalog.
day_map_with_saturday ==
    (0 :> "M") @@ (1 :> "T") @@ (2 :> "W") @@ (3 :> "R") @@ (4 :> "F") @@ (5 :> "F")

day_map ==
    (0 :> "M") @@ (1 :> "T") @@ (2 :> "W") @@ (3 :> "R") @@ (4 :> "F")

\* Python's `letter in text` for a one-character letter.
letter_in(letter, text) ==
    \E i \in 1..Len(text) : SubSeq(text, i, i) = letter

\* Python's format spec 02d: at least two characters, padded with zeros.
fmt_02d(n) ==
    IF n >= 0 /\ n < 10 THEN "0" \o ToString(n) ELSE ToString(n)

\* The time string without the zero padding.
time_str_unpadded(hour, minute) ==
    ToString(hour) \o ":" \o ToString(minute)

time_str(hour, minute) ==
    fmt_02d(hour) \o ":" \o fmt_02d(minute)

\* The match taken on the pattern's end time instead of its start time.
pattern_matches_end(pattern, day_letter, t) ==
    letter_in(day_letter, pattern.days) /\ pattern.end = t

pattern_matches(pattern, day_letter, t) ==
    letter_in(day_letter, pattern.days) /\ pattern.start = t

\* The loop over STANDARD_PATTERNS adds one for every matching pattern.
count_patterns(day_letter, t) ==
    Cardinality({i \in DOMAIN STANDARD_PATTERNS :
                    pattern_matches(STANDARD_PATTERNS[i], day_letter, t)})

get_class_starts_at_time(hour, minute, day_of_week) ==
    IF day_of_week \notin DOMAIN day_map THEN 0
    ELSE count_patterns(day_map[day_of_week], time_str(hour, minute))

\* The last hour scanned up to and including the end minute.
end_m_inclusive(h, end_hour, end_minute) ==
    IF h = end_hour THEN end_minute + 1 ELSE 60

end_m(h, end_hour, end_minute) ==
    IF h = end_hour THEN end_minute ELSE 60

\* The while loop; loc holds the locals current_minute and total.
RECURSIVE window_while(_, _, _, _)
window_while(loc, h, endm, day_of_week) ==
    IF loc.current_minute < endm
    THEN window_while(
            [current_minute |-> loc.current_minute + 1,
             total |-> loc.total +
                       get_class_starts_at_time(h, loc.current_minute, day_of_week)],
            h, endm, day_of_week)
    ELSE loc

\* The minute carried into the next hour when it is not set back to 0.
next_hour_minute_kept(current_minute) == current_minute

next_hour_minute(current_minute) == 0

\* The for loop over range(start_hour, end_hour + 1).
RECURSIVE window_for(_, _, _, _, _)
window_for(loc, h, end_hour, end_minute, day_of_week) ==
    IF h > end_hour THEN loc
    ELSE LET after == window_while(loc, h, end_m(h, end_hour, end_minute), day_of_week)
         IN  window_for(
                [current_minute |-> next_hour_minute(after.current_minute),
                 total |-> after.total],
                h + 1, end_hour, end_minute, day_of_week)

\* The window counted from the top of its first hour, whatever start_minute is.
get_class_starts_in_whole_hours(start_hour, start_minute, end_hour, end_minute, day_of_week) ==
    window_for([current_minute |-> 0, total |-> 0],
               start_hour, end_hour, end_minute, day_of_week).total

get_class_starts_in_window(start_hour, start_minute, end_hour, end_minute, day_of_week) ==
    window_for([current_minute |-> start_minute, total |-> 0],
               start_hour, end_hour, end_minute, day_of_week).total

\* get_peak_class_times reads a start time back into (hour, minute).
DigitValue ==
    ("0" :> 0) @@ ("1" :> 1) @@ ("2" :> 2) @@ ("3" :> 3) @@ ("4" :> 4) @@
    ("5" :> 5) @@ ("6" :> 6) @@ ("7" :> 7) @@ ("8" :> 8) @@ ("9" :> 9)

RECURSIVE parse_int(_, _, _)
parse_int(text, i, acc) ==
    IF i > Len(text) THEN acc
    ELSE parse_int(text, i + 1, 10 * acc + DigitValue[SubSeq(text, i, i)])

RECURSIVE find_colon(_, _)
find_colon(text, i) ==
    IF i > Len(text) \/ SubSeq(text, i, i) = ":" THEN i ELSE find_colon(text, i + 1)

split_time(start_time) ==
    LET c == find_colon(start_time, 1)
    IN  <<parse_int(SubSeq(start_time, 1, c - 1), 1, 0),
          parse_int(SubSeq(start_time, c + 1, Len(start_time)), 1, 0)>>

(***************************************************************************)
(* Calls of the schedule functions                                         *)
(***************************************************************************)
HourSpan == 2
WindowHours == 8..(8 + HourSpan)
WindowMinutes == {0, 5, 6, 10, 30, 59}
DaysOfWeek == 0..6

AtTimeCalls ==
    [fn : {"at_time"}, hour : 0..23, minute : 0..59,
     end_hour : {0}, end_minute : {0}, day_of_week : DaysOfWeek]

WindowCalls ==
    [fn : {"in_window"}, hour : WindowHours, minute : WindowMinutes,
     end_hour : WindowHours, end_minute : WindowMinutes, day_of_week : DaysOfWeek]

NoCall == [fn |-> "none"]
NoTable == <<>>
NoError == [type |-> "none"]
NoTrain == [stage |-> "none"]
NoFrames == <<>>

InitSchedule ==
    /\ call \in AtTimeCalls \cup WindowCalls
    /\ sched_pc = "called"
    /\ ret = 0
    /\ input = NoTable
    /\ df = NoTable
    /\ pc = "idle"
    /\ err = NoError
    /\ order = <<>>
    /\ passed = NoTable
    /\ train = NoTrain
    /\ frames = NoFrames
    /\ catalog = STANDARD_PATTERNS

GetClassStartsAtTime ==
    /\ sched_pc = "called"
    /\ call.fn = "at_time"
    /\ ret' = get_class_starts_at_time(call.hour, call.minute, call.day_of_week)
    /\ sched_pc' = "returned"
    /\ UNCHANGED <<call, feature_vars, train_vars, concurrent_vars>>

GetClassStartsInWindow ==
    /\ sched_pc = "called"
    /\ call.fn = "in_window"
    /\ ret' = get_class_starts_in_window(call.hour, call.minute,
                    call.end_hour, call.end_minute, call.day_of_week)
    /\ sched_pc' = "returned"
    /\ UNCHANGED <<call, feature_vars, train_vars, concurrent_vars>>

NextSchedule ==
    \/ GetClassStartsAtTime
    \/ GetClassStartsInWindow

SpecSchedule == InitSchedule /\ [][NextSchedule]_vars

(***************************************************************************)
(* Concurrent callers of the schedule functions.  Every caller runs its    *)
(* call one loop pass at a time, on locals of its own; the passes of the   *)
(* callers interleave freely.  The one object they share is the list       *)
(* STANDARD_PATTERNS.                                                      *)
(***************************************************************************)
MaxCallers == 2
Callers == 1..MaxCallers

WindowCall(hour, minute, end_hour, end_minute, day_of_week) ==
    [fn |-> "in_window", hour |-> hour, minute |-> minute,
     end_hour |-> end_hour, end_minute |-> end_minute, day_of_week |-> day_of_week]

AtTimeCall(hour, minute, day_of_week) ==
    [fn |-> "at_time", hour |-> hour, minute |-> minute,
     end_hour |-> 0, end_minute |-> 0, day_of_week |-> day_of_week]

\* The first caller counts a window, the others single minutes.
ConcurrentCalls(caller) ==
    IF caller = 1
    THEN {WindowCall(7, 59, 8, 1, 1), WindowCall(7, 59, 8, 1, 5)}
    ELSE {AtTimeCall(10, 10, 0), AtTimeCall(8, 0, 1), AtTimeCall(8, 0, 6)}

\* The locals of a call that has not run yet.
NewFrame(c) ==
    [call |-> c, at |-> "called", h |-> 0, current_minute |-> 0, end_m |-> 0,
     total |-> 0, time_str |-> "", day_letter |-> "", next |-> 0, count |-> 0,
     ret |-> 0]

InitConcurrent ==
    /\ \E calls \in [Callers -> UNION {ConcurrentCalls(k) : k \in Callers}] :
        /\ \A k \in Callers : calls[k] \in ConcurrentCalls(k)
        /\ frames = [k \in Callers |-> NewFrame(calls[k])]
    /\ catalog = STANDARD_PATTERNS
    /\ call = NoCall
    /\ sched_pc = "idle"
    /\ ret = 0
    /\ input = NoTable
    /\ df = NoTable
    /\ pc = "idle"
    /\ err = NoError
    /\ order = <<>>
    /\ passed = NoTable
    /\ train = NoTrain

\* The list after a pass of the loop has read its element i, were the read to
\* clear the start time of the element.
catalog_after_read_cleared(patterns, i) ==
    [patterns EXCEPT ![i].start = ""]

\* for pattern in STANDARD_PATTERNS: a pass reads element i and writes nothing.
catalog_after_read(patterns, i) == patterns

\* The frame when get_class_starts_at_time(hour, minute, day_of_week) returns
\* count: to the caller itself, or into the while loop of
\* get_class_starts_in_window (lines 107-108).
at_time_returns(f, count) ==
    IF f.call.fn = "at_time"
    THEN [f EXCEPT !.at = "returned", !.ret = count]
    ELSE [f EXCEPT !.at = "while", !.total = f.total + count,
                   !.current_minute = f.current_minute + 1]

\* get_class_starts_at_time, lines 62-77
at_time_enters(f, hour, minute, day_of_week) ==
    IF day_of_week \notin DOMAIN day_map THEN at_time_returns(f, 0)
    ELSE [f EXCEPT !.at = "scan", !.day_letter = day_map[day_of_week],
                   !.time_str = time_str(hour, minute), !.next = 1, !.count = 0]

\* The caller starts its call (lines 62-77 or 99-100).
Enter(k) ==
    /\ frames[k].at = "called"
    /\ LET f == frames[k]
       IN  frames' = [frames EXCEPT ![k] =
                IF f.call.fn = "at_time"
                THEN at_time_enters(f, f.call.hour, f.call.minute, f.call.day_of_week)
                ELSE [f EXCEPT !.at = "for", !.total = 0,
                               !.current_minute = f.call.minute, !.h = f.call.hour]]
    /\ UNCHANGED <<catalog, schedule_vars, feature_vars, train_vars>>

\* One pass of the for loop of get_class_starts_in_window (lines 103-104), or
\* its return (line 112).
ForPass(k) ==
    /\ frames[k].at = "for"
    /\ LET f == frames[k]
       IN  frames' = [frames EXCEPT ![k] =
                IF f.h > f.call.end_hour
                THEN [f EXCEPT !.at = "returned", !.ret = f.total]
                ELSE [f EXCEPT !.at = "while",
                               !.end_m = end_m(f.h, f.call.end_hour, f.call.end_minute)]]
    /\ UNCHANGED <<catalog, schedule_vars, feature_vars, train_vars>>

\* The test of the while loop (line 106): the call of line 107, or line 110.
WhilePass(k) ==
    /\ frames[k].at = "while"
    /\ LET f == frames[k]
       IN  frames' = [frames EXCEPT ![k] =
                IF f.current_minute < f.end_m
                THEN at_time_enters(f, f.h, f.current_minute, f.call.day_of_week)
                ELSE [f EXCEPT !.at = "for", !.h = f.h + 1,
                               !.current_minute = next_hour_minute(f.current_minute)]]
    /\ UNCHANGED <<catalog, schedule_vars, feature_vars, train_vars>>

\* One pass of the loop over STANDARD_PATTERNS (lines 78-80), or the return
\* of line 82.
ScanPass(k) ==
    /\ frames[k].at = "scan"
    /\ LET f == frames[k]
       IN  IF f.next > Len(catalog)
           THEN /\ frames' = [frames EXCEPT ![k] = at_time_returns(f, f.count)]
                /\ UNCHANGED catalog
           ELSE /\ frames' = [frames EXCEPT ![k] =
                        [f EXCEPT !.next = f.next + 1,
                                  !.count = IF pattern_matches(catalog[f.next],
                                                               f.day_letter, f.time_str)
                                            THEN f.count + 1 ELSE f.count]]
                /\ catalog' = catalog_after_read(catalog, f.next)
    /\ UNCHANGED <<schedule_vars, feature_vars, train_vars>>

NextConcurrent ==
    \E k \in Callers :
        \/ Enter(k)
        \/ ForPass(k)
        \/ WhilePass(k)
        \/ ScanPass(k)

SpecConcurrent == InitConcurrent /\ [][NextConcurrent]_vars

(***************************************************************************)
(* Tables: a pandas DataFrame is a function from column names to columns,  *)
(* a column a sequence of cells in row order.  A missing value (NaN) is    *)
(* NaN, a present float is Some(v); raw columns hold integers.  Means are  *)
(* exact fractions <<numerator, denominator>> in lowest terms.             *)
(***************************************************************************)
NaN == <<>>
Some(v) == <<v>>

Columns(t) == DOMAIN t
Rows(t) == Len(t["datetime"])

\* df[name] = column
Assign(t, name, column) == (name :> column) @@ t

\* A run of assignments df[name] = column, in the order of the sequence steps:
\* a name assigned twice keeps the later column.
AssignAll(t, steps) ==
    [c \in {steps[k].name : k \in DOMAIN steps} |->
        LET last == CHOOSE k \in DOMAIN steps :
                        /\ steps[k].name = c
                        /\ \A j \in DOMAIN steps : steps[j].name = c => j <= k
        IN  steps[last].column] @@ t

\* The rows of t in the order ord, the last of them left out.
Take_without_last(t, ord) ==
    [c \in Columns(t) |-> [i \in 1..(Len(ord) - 1) |-> t[c][ord[i]]]]

\* The rows of t taken in the order ord (ord[i] is the old position of new row i),
\* with the index reset.
Take(t, ord) ==
    [c \in Columns(t) |-> [i \in 1..Len(ord) |-> t[c][ord[i]]]]

\* The first column of reads that t lacks: the key of the KeyError.
RECURSIVE first_missing(_, _, _)
first_missing(t, reads, i) ==
    IF i > Len(reads) THEN ""
    ELSE IF reads[i] \notin Columns(t) THEN reads[i]
    ELSE first_missing(t, reads, i + 1)

KeyError(key) == [type |-> "KeyError", key |-> key]

\* pd.to_datetime: an ISO string "YYYY-MM-DD" becomes a timestamp, a timestamp
\* stays as it is.
to_datetime_cell(cell) ==
    IF "iso" \in DOMAIN cell
    THEN [y |-> parse_int(SubSeq(cell.iso, 1, 4), 1, 0),
          m |-> parse_int(SubSeq(cell.iso, 6, 7), 1, 0),
          d |-> parse_int(SubSeq(cell.iso, 9, 10), 1, 0)]
    ELSE cell

to_datetime(column) == [i \in DOMAIN column |-> to_datetime_cell(column[i])]

\* The proleptic Gregorian ordinal of a timestamp.
is_leap(y) == y % 4 = 0 /\ (y % 100 # 0 \/ y % 400 = 0)

days_in_month(y, m) ==
    IF m = 2 THEN (IF is_leap(y) THEN 29 ELSE 28)
    ELSE IF m \in {4, 6, 9, 11} THEN 30 ELSE 31

RECURSIVE days_before_month(_, _)
days_before_month(y, m) ==
    IF m <= 1 THEN 0 ELSE days_before_month(y, m - 1) + days_in_month(y, m - 1)

toordinal(ts) ==
    LET y1 == ts.y - 1
    IN  y1 * 365 + (y1 \div 4) - (y1 \div 100) + (y1 \div 400)
        + days_before_month(ts.y, ts.m) + ts.d

\* .dt.dayofweek: 0 = Monday .. 6 = Sunday
dayofweek(ts) == (toordinal(ts) + 6) % 7

\* (condition).astype(int)
astype_int(b) == IF b THEN 1 ELSE 0

\* sort_values('datetime'): the position of each row in ascending date order.
\* The default sort kind is not stable: rows of equal date come out in input
\* order (ties = "kept") or in the opposite order (ties = "swapped"), which are
\* all the outcomes when no date occurs more than twice.
sort_rank(keys, r, ties) ==
    Cardinality({q \in DOMAIN keys : keys[q] < keys[r]}) +
    Cardinality({q \in DOMAIN keys :
                    /\ keys[q] = keys[r]
                    /\ IF ties = "kept" THEN q < r ELSE q > r}) + 1

sort_order(keys, ties) ==
    [i \in DOMAIN keys |-> CHOOSE r \in DOMAIN keys : sort_rank(keys, r, ties) = i]

\* The orders of a sort that may also come out latest first.
sort_orders_or_descending(keys) ==
    {sort_order(keys, "kept"),
     [i \in DOMAIN keys |-> sort_order(keys, "kept")[Len(keys) + 1 - i]]}

sort_orders(keys) == {sort_order(keys, ties) : ties \in {"kept", "swapped"}}

date_keys(t) ==
    [i \in DOMAIN t["datetime"] |-> toordinal(to_datetime_cell(t["datetime"][i]))]

(***************************************************************************)
(* feature_engineering.py: add_temporal_features                           *)
(***************************************************************************)
temporal_reads == <<"datetime">>

add_temporal_features(t) ==
    LET dt == to_datetime(t["datetime"])
        dow == [i \in DOMAIN dt |-> dayofweek(dt[i])]
        month == [i \in DOMAIN dt |-> dt[i].m]
        new == [c \in {"datetime", "day_of_week", "month", "day_of_month",
                       "is_weekend", "is_monday", "is_friday",
                       "is_fall_semester", "is_spring_semester", "is_summer"} |->
                CASE c = "datetime" -> dt
                  [] c = "day_of_week" -> dow
                  [] c = "month" -> month
                  [] c = "day_of_month" -> [i \in DOMAIN dt |-> dt[i].d]
                  [] c = "is_weekend" -> [i \in DOMAIN dt |-> astype_int(dow[i] >= 5)]
                  [] c = "is_monday" -> [i \in DOMAIN dt |-> astype_int(dow[i] = 0)]
                  [] c = "is_friday" -> [i \in DOMAIN dt |-> astype_int(dow[i] = 4)]
                  [] c = "is_fall_semester" ->
                        [i \in DOMAIN dt |-> astype_int(month[i] \in {9, 10, 11, 12})]
                  [] c = "is_spring_semester" ->
                        [i \in DOMAIN dt |-> astype_int(month[i] \in {1, 2, 3, 4, 5})]
                  [] c = "is_summer" ->
                        [i \in DOMAIN dt |-> astype_int(month[i] \in {6, 7, 8})]]
    IN  new @@ t

(***************************************************************************)
(* feature_engineering.py: add_class_schedule_features                     *)
(***************************************************************************)
\* The four daytime windows the builders count class starts in, counted once
\* per weekday index with get_class_starts_in_window.
morning_window == <<8, 0, 10, 0>>
midday_window == <<10, 0, 12, 0>>
afternoon_window == <<12, 0, 15, 0>>
evening_window == <<15, 0, 18, 0>>

window_starts ==
    [w \in {morning_window, midday_window, afternoon_window, evening_window} |->
        [d \in DaysOfWeek |-> get_class_starts_in_window(w[1], w[2], w[3], w[4], d)]]

\* lambda row: get_class_starts_in_window(...) if row['day_of_week'] < 5 else 0
class_starts(w, day_of_week) ==
    IF day_of_week < 5 THEN window_starts[w][day_of_week] ELSE 0

class_schedule_reads == <<"datetime">>

add_class_schedule_features(t) ==
    LET dt == to_datetime(t["datetime"])
        dow == [i \in DOMAIN dt |-> dayofweek(dt[i])]
        morning == [i \in DOMAIN dt |-> class_starts(morning_window, dow[i])]
        midday == [i \in DOMAIN dt |-> class_starts(midday_window, dow[i])]
        afternoon == [i \in DOMAIN dt |-> class_starts(afternoon_window, dow[i])]
        evening == [i \in DOMAIN dt |-> class_starts(evening_window, dow[i])]
        new == [c \in {"datetime", "day_of_week", "morning_class_starts",
                       "midday_class_starts", "afternoon_class_starts",
                       "evening_class_starts", "total_class_starts",
                       "is_mwf_day", "is_tr_day"} |->
                CASE c = "datetime" -> dt
                  [] c = "day_of_week" -> dow
                  [] c = "morning_class_starts" -> morning
                  [] c = "midday_class_starts" -> midday
                  [] c = "afternoon_class_starts" -> afternoon
                  [] c = "evening_class_starts" -> evening
                  [] c = "total_class_starts" ->
                        [i \in DOMAIN dt |->
                            morning[i] + midday[i] + afternoon[i] + evening[i]]
                  [] c = "is_mwf_day" -> [i \in DOMAIN dt |-> astype_int(dow[i] \in {0, 2, 4})]
                  [] c = "is_tr_day" -> [i \in DOMAIN dt |-> astype_int(dow[i] \in {1, 3})]]
    IN  new @@ t

(***************************************************************************)
(* feature_engineering.py: add_time_series_features                        *)
(***************************************************************************)
RECURSIVE gcd(_, _)
gcd(a, b) == IF b = 0 THEN a ELSE gcd(b, a % b)

\* The fraction num/den (den > 0, num >= 0) in lowest terms.
Frac(num, den) ==
    LET g == gcd(num, den) IN <<num \div g, den \div g>>

\* The shift one row short (the value lag - 1 rows earlier).
shift_one_short(column, lag) ==
    [i \in DOMAIN column |-> IF i - (lag - 1) >= 1 /\ i - (lag - 1) <= Len(column)
                             THEN Some(column[i - (lag - 1)]) ELSE NaN]

\* The shift taken in the other direction (the value lag rows later).
shift_forward(column, lag) ==
    [i \in DOMAIN column |-> IF i + lag >= 1 /\ i + lag <= Len(column)
                             THEN Some(column[i + lag]) ELSE NaN]

\* Series.shift(lag): row i takes the value lag rows earlier; the first lag rows
\* have none.
shift(column, lag) ==
    [i \in DOMAIN column |-> IF i - lag >= 1 /\ i - lag <= Len(column)
                             THEN Some(column[i - lag]) ELSE NaN]

\* Series.rolling(window, min_periods=1): the sliding pass of the rolling
\* aggregations.  Walking down the column it adds row i and drops row
\* i - window, keeping the number of observations, their sum and the sum of
\* their squares.  acc is the sequence of these triples for rows 1..i-1.
RECURSIVE rolling_pass(_, _, _, _)
rolling_pass(column, window, i, acc) ==
    IF i > Len(column) THEN acc
    ELSE LET prev == IF i = 1 THEN [nobs |-> 0, sum |-> 0, sumsq |-> 0] ELSE acc[i - 1]
             add == [nobs |-> prev.nobs + 1,
                     sum |-> prev.sum + column[i],
                     sumsq |-> prev.sumsq + column[i] * column[i]]
             now == IF i > window
                    THEN [nobs |-> add.nobs - 1,
                          sum |-> add.sum - column[i - window],
                          sumsq |-> add.sumsq - column[i - window] * column[i - window]]
                    ELSE add
         IN  rolling_pass(column, window, i + 1, Append(acc, now))

rolling(column, window) == rolling_pass(column, window, 1, <<>>)

\* The mean of an expanding window, one that never drops a row.
rolling_mean_expanding(column, window) ==
    LET r == rolling(column, Len(column))
    IN  [i \in DOMAIN column |->
            IF r[i].nobs >= 1 THEN Some(Frac(r[i].sum, r[i].nobs)) ELSE NaN]

\* .mean() with min_periods=1
rolling_mean(column, window) ==
    LET r == rolling(column, window)
    IN  [i \in DOMAIN column |->
            IF r[i].nobs >= 1 THEN Some(Frac(r[i].sum, r[i].nobs)) ELSE NaN]

\* The standard deviation taken with ddof=0, defined from the first observation.
rolling_std_population(column, window) ==
    LET r == rolling(column, window)
    IN  [i \in DOMAIN column |->
            IF r[i].nobs >= 1
            THEN Some([sqrt_of |-> Frac(r[i].nobs * r[i].sumsq - r[i].sum * r[i].sum,
                                        r[i].nobs * r[i].nobs)])
            ELSE NaN]

\* .std() with min_periods=1 and ddof=1: the square root of the sample variance,
\* missing when the window holds fewer than two observations.  The cell keeps
\* the variance the root is taken of.
rolling_std(column, window) ==
    LET r == rolling(column, window)
    IN  [i \in DOMAIN column |->
            IF r[i].nobs >= 2
            THEN Some([sqrt_of |-> Frac(r[i].nobs * r[i].sumsq - r[i].sum * r[i].sum,
                                        r[i].nobs * (r[i].nobs - 1))])
            ELSE NaN]

lag_days_default == <<1, 2, 3, 7>>
rolling_windows == <<3, 7, 14>>
std_windows == <<7, 14>>

lag_name(source, lag) == source \o "_lag_" \o ToString(lag) \o "d"
rolling_name(source, window) == source \o "_rolling_" \o ToString(window) \o "d"
std_name(source, window) == source \o "_std_" \o ToString(window) \o "d"

lag_sources ==
    <<"precip", "snow", "total_alerts", "construction_alerts", "technical_problem_alerts">>
rolling_sources == <<"precip", "snow", "total_alerts">>
std_sources == <<"precip", "snow">>

\* The pair (outer, inner) of the k-th pass of two nested loops, the inner one
\* of length width.
outer_index(k, width) == ((k - 1) \div width) + 1
inner_index(k, width) == ((k - 1) % width) + 1

\* for lag in lag_days: the five lagged columns, in the order assigned.  No
\* pass reads a column an earlier pass assigned.
lag_loop(t, lag_days) ==
    [k \in 1..(Len(lag_days) * Len(lag_sources)) |->
        LET lag == lag_days[outer_index(k, Len(lag_sources))]
            source == lag_sources[inner_index(k, Len(lag_sources))]
        IN  [name |-> lag_name(source, lag), column |-> shift(t[source], lag)]]

\* for window in [3, 7, 14]: the three rolling means
rolling_loop(t) ==
    [k \in 1..(Len(rolling_windows) * Len(rolling_sources)) |->
        LET w == rolling_windows[outer_index(k, Len(rolling_sources))]
            source == rolling_sources[inner_index(k, Len(rolling_sources))]
        IN  [name |-> rolling_name(source, w), column |-> rolling_mean(t[source], w)]]

\* for window in [7, 14]: the two rolling standard deviations
std_loop(t) ==
    [k \in 1..(Len(std_windows) * Len(std_sources)) |->
        LET w == std_windows[outer_index(k, Len(std_sources))]
            source == std_sources[inner_index(k, Len(std_sources))]
        IN  [name |-> std_name(source, w), column |-> rolling_std(t[source], w)]]

time_series_reads ==
    <<"datetime", "precip", "snow", "total_alerts", "construction_alerts",
      "technical_problem_alerts">>

\* The table sorted by date in the order ord, with its index reset.
sorted_by_datetime(t, ord) ==
    Take(Assign(t, "datetime", to_datetime(t["datetime"])), ord)

add_time_series_features(t, lag_days, ord) ==
    LET s0 == sorted_by_datetime(t, ord)
    IN  AssignAll(s0, lag_loop(s0, lag_days) \o rolling_loop(s0) \o std_loop(s0))

(***************************************************************************)
(* feature_engineering.py: add_alert_pattern_features                      *)
(***************************************************************************)
\* The positions of the rows a boolean mask selects, in row order.
masked_positions(mask) ==
    SelectSeq([i \in DOMAIN mask |-> i], LAMBDA i : mask[i])

\* Series.expanding().mean(): the mean of the values up to and including each.
RECURSIVE expanding_pass(_, _, _)
expanding_pass(sub, k, acc) ==
    IF k > Len(sub) THEN acc
    ELSE LET prev == IF k = 1 THEN 0 ELSE acc[k - 1]
         IN  expanding_pass(sub, k + 1, Append(acc, prev + sub[k]))

\* The mean of the whole group at every row, later rows included.
expanding_mean_whole(sub) ==
    LET sums == expanding_pass(sub, 1, <<>>)
    IN  [k \in DOMAIN sub |-> Some(Frac(sums[Len(sub)], Len(sub)))]

expanding_mean(sub) ==
    LET sums == expanding_pass(sub, 1, <<>>)
    IN  [k \in DOMAIN sub |-> Some(Frac(sums[k], k))]

\* df.loc[mask, name] = df.loc[mask, source].expanding().mean(), the other rows
\* keeping the cell they have in column old.
masked_expanding_mean(old, source, mask) ==
    LET pos == masked_positions(mask)
        em == expanding_mean([k \in DOMAIN pos |-> source[pos[k]]])
    IN  [i \in DOMAIN old |->
            IF mask[i] THEN em[CHOOSE k \in DOMAIN pos : pos[k] = i] ELSE old[i]]

zero_float == Some(Frac(0, 1))

\* One pass of a pattern loop: the column is 0.0 and, where key = value, the
\* expanding mean of total_alerts over the rows with that key.
pattern_column(t, key, value) ==
    LET mask == [i \in DOMAIN t[key] |-> t[key][i] = value]
        zeros == [i \in DOMAIN t[key] |-> zero_float]
    IN  IF \E i \in DOMAIN mask : mask[i]
        THEN masked_expanding_mean(zeros, t["total_alerts"], mask)
        ELSE zeros

dow_pattern_name(day) == "alert_pattern_dow_" \o ToString(day)
month_pattern_name(month) == "alert_pattern_month_" \o ToString(month)

\* for day in range(7)
dow_pattern_loop(t) ==
    [k \in 1..7 |->
        [name |-> dow_pattern_name(k - 1),
         column |-> pattern_column(t, "day_of_week", k - 1)]]

\* for month in range(1, 13)
month_pattern_loop(t) ==
    [k \in 1..12 |->
        [name |-> month_pattern_name(k), column |-> pattern_column(t, "month", k)]]

\* (total_alerts > 0).cumsum(): the number of alert rows up to and including i.
alert_cumsum(alerts, i) == Cardinality({j \in 1..i : alerts[j] > 0})

\* groupby(key).cumcount(): the number of earlier rows of the same group.
cumcount(key) ==
    [i \in DOMAIN key |-> Cardinality({j \in 1..(i - 1) : key[j] = key[i]})]

\* The count that does not restart at an alert row: the row's own position.
days_since_first_row(alerts) ==
    cumcount([i \in DOMAIN alerts |-> 0])

days_since_last_alert(alerts) ==
    cumcount([i \in DOMAIN alerts |-> alert_cumsum(alerts, i)])

\* b.ne(b.shift()).cumsum(): the number of the run of equal values row i is in;
\* the first row differs from the missing value before it.
run_id(b, i) ==
    Cardinality({j \in 1..i : j = 1 \/ b[j] # b[j - 1]})

\* b.groupby(runs).cumsum(): the number of True cells of row i's run up to i.
alert_streak(alerts) ==
    LET b == [i \in DOMAIN alerts |-> alerts[i] > 0]
    IN  [i \in DOMAIN alerts |->
            Cardinality({j \in 1..i : run_id(b, j) = run_id(b, i) /\ b[j]})]

alert_pattern_reads == <<"datetime", "day_of_week", "total_alerts", "month">>

add_alert_pattern_features(t, ord) ==
    LET s0 == sorted_by_datetime(t, ord)
    IN  AssignAll(s0,
            dow_pattern_loop(s0) \o month_pattern_loop(s0) \o
            << [name |-> "days_since_last_alert",
                column |-> days_since_last_alert(s0["total_alerts"])],
               [name |-> "alert_streak", column |-> alert_streak(s0["total_alerts"])] >>)

(***************************************************************************)
(* feature_engineering.py: add_interaction_features                        *)
(***************************************************************************)
interaction_reads ==
    <<"total_alerts", "is_monday", "is_friday", "is_weekend", "morning_class_starts",
      "afternoon_class_starts", "construction_alerts", "total_class_starts",
      "morning_rush_alerts", "class_end_time_alerts", "precip", "snow",
      "technical_problem_alerts", "month", "is_fall_semester", "is_spring_semester">>

\* The interaction columns, each the product of two or three columns of the table.
interaction_factors ==
    [alerts_x_monday |-> <<"total_alerts", "is_monday">>,
     alerts_x_friday |-> <<"total_alerts", "is_friday">>,
     alerts_x_weekend |-> <<"total_alerts", "is_weekend">>,
     alerts_x_morning_classes |-> <<"total_alerts", "morning_class_starts">>,
     alerts_x_afternoon_classes |-> <<"total_alerts", "afternoon_class_starts">>,
     construction_x_class_starts |-> <<"construction_alerts", "total_class_starts">>,
     morning_rush_alerts_x_classes |-> <<"morning_rush_alerts", "morning_class_starts">>,
     class_end_alerts_x_classes |-> <<"class_end_time_alerts", "afternoon_class_starts">>,
     precip_x_alerts |-> <<"precip", "total_alerts">>,
     snow_x_alerts |-> <<"snow", "total_alerts">>,
     snow_x_construction |-> <<"snow", "construction_alerts">>,
     precip_x_technical_problems |-> <<"precip", "technical_problem_alerts">>,
     snow_x_morning_classes |-> <<"snow", "morning_class_starts">>,
     precip_x_class_starts |-> <<"precip", "total_class_starts">>,
     month_x_alerts |-> <<"month", "total_alerts">>,
     fall_semester_x_alerts |-> <<"is_fall_semester", "total_alerts">>,
     spring_semester_x_alerts |-> <<"is_spring_semester", "total_alerts">>,
     construction_x_monday_x_classes |->
        <<"construction_alerts", "is_monday", "morning_class_starts">>,
     snow_x_monday_x_classes |-> <<"snow", "is_monday", "morning_class_starts">>]

RECURSIVE product(_, _, _, _)
product(t, factors, k, i) ==
    IF k > Len(factors) THEN 1 ELSE t[factors[k]][i] * product(t, factors, k + 1, i)

add_interaction_features(t) ==
    LET new == [c \in DOMAIN interaction_factors \cup {"alerts_x_weekday_x_classes"} |->
                IF c = "alerts_x_weekday_x_classes"
                THEN [i \in DOMAIN t["total_alerts"] |->
                        t["total_alerts"][i] * (1 - t["is_weekend"][i])
                        * t["total_class_starts"][i]]
                ELSE [i \in DOMAIN t["total_alerts"] |->
                        product(t, interaction_factors[c], 1, i)]]
    IN  new @@ t

(***************************************************************************)
(* feature_engineering.py: create_advanced_features                        *)
(***************************************************************************)
\* The five stages in the order of lines 200-216; ord1 and ord2 are the orders
\* the two sorts come out in.
create_advanced_features(t, ord1, ord2) ==
    add_interaction_features(
        add_alert_pattern_features(
            add_time_series_features(
                add_class_schedule_features(add_temporal_features(t)),
                lag_days_default, ord1),
            ord2))

(***************************************************************************)
(* model.py: create_features                                               *)
(***************************************************************************)
\* The expanding mean taken over all rows, whatever their group.
group_expanding_mean_ungrouped(out, source, key, groups) ==
    masked_expanding_mean(out, source, [i \in DOMAIN key |-> TRUE])

\* groupby(key)[...].transform(lambda x: x.expanding().mean()): every row gets
\* the expanding mean of its own group.
RECURSIVE group_expanding_mean(_, _, _, _)
group_expanding_mean(out, source, key, groups) ==
    IF groups = {} THEN out
    ELSE LET g == CHOOSE g \in groups : TRUE
             mask == [i \in DOMAIN key |-> key[i] = g]
         IN  group_expanding_mean(masked_expanding_mean(out, source, mask),
                                  source, key, groups \ {g})

create_features_reads == <<"datetime", "snow", "total_alerts">>

create_features(t, ord) ==
    LET s0 == sorted_by_datetime(t, ord)
        dt == s0["datetime"]
        rows == DOMAIN dt
        dow == [i \in rows |-> dayofweek(dt[i])]
        month == [i \in rows |-> dt[i].m]
        morning == [i \in rows |-> class_starts(morning_window, dow[i])]
        afternoon == [i \in rows |-> class_starts(afternoon_window, dow[i])]
        total == [i \in rows |-> morning[i] + afternoon[i]]
        snow == s0["snow"]
        alerts == s0["total_alerts"]
        new == [c \in {"day_of_week", "month", "is_weekend", "is_monday",
                       "morning_class_starts", "afternoon_class_starts",
                       "total_class_starts", "snow_lag_1d", "snow_lag_7d",
                       "total_alerts_lag_1d", "total_alerts_lag_7d",
                       "snow_rolling_3d", "snow_rolling_7d",
                       "total_alerts_rolling_7d", "total_alerts_rolling_14d",
                       "snow_std_7d", "alert_pattern_month", "days_since_last_alert",
                       "snow_x_classes", "alerts_x_classes"} |->
                CASE c = "day_of_week" -> dow
                  [] c = "month" -> month
                  [] c = "is_weekend" -> [i \in rows |-> astype_int(dow[i] >= 5)]
                  [] c = "is_monday" -> [i \in rows |-> astype_int(dow[i] = 0)]
                  [] c = "morning_class_starts" -> morning
                  [] c = "afternoon_class_starts" -> afternoon
                  [] c = "total_class_starts" -> total
                  [] c = "snow_lag_1d" -> shift(snow, 1)
                  [] c = "snow_lag_7d" -> shift(snow, 7)
                  [] c = "total_alerts_lag_1d" -> shift(alerts, 1)
                  [] c = "total_alerts_lag_7d" -> shift(alerts, 7)
                  [] c = "snow_rolling_3d" -> rolling_mean(snow, 3)
                  [] c = "snow_rolling_7d" -> rolling_mean(snow, 7)
                  [] c = "total_alerts_rolling_7d" -> rolling_mean(alerts, 7)
                  [] c = "total_alerts_rolling_14d" -> rolling_mean(alerts, 14)
                  [] c = "snow_std_7d" -> rolling_std(snow, 7)
                  [] c = "alert_pattern_month" ->
                        group_expanding_mean([i \in rows |-> NaN], alerts, month,
                                             {month[i] : i \in rows})
                  [] c = "days_since_last_alert" -> days_since_last_alert(alerts)
                  [] c = "snow_x_classes" -> [i \in rows |-> snow[i] * total[i]]
                  [] c = "alerts_x_classes" -> [i \in rows |-> alerts[i] * total[i]]]
    IN  new @@ s0

(***************************************************************************)
(* The tables handed to the feature builder                                *)
(***************************************************************************)
MaxShortRows == 6
MaxRows == 15

\* The k-th day from 2019-01-21 (a Monday), as the CSV file spells it.
InputDate(k) ==
    [iso |-> IF k <= 11 THEN "2019-01-" \o ToString(20 + k)
             ELSE "2019-02-" \o fmt_02d(k - 11)]

FullColumns ==
    {"datetime", "pct", "precip", "snow", "total_alerts", "construction_alerts",
     "technical_problem_alerts", "morning_rush_alerts", "class_end_time_alerts"}

MinimumColumns ==
    {"datetime", "pct", "precip", "snow", "total_alerts", "construction_alerts",
     "technical_problem_alerts"}

Scenarios ==
    {"sorted", "reversed", "duplicate_date", "minimum_schema",
     "no_construction_alerts", "no_total_alerts"}

ScenarioColumns(scenario) ==
    CASE scenario = "minimum_schema" -> MinimumColumns
      [] scenario = "no_construction_alerts" -> FullColumns \ {"construction_alerts"}
      [] scenario = "no_total_alerts" -> FullColumns \ {"total_alerts"}
      [] OTHER -> FullColumns

\* Short tables take every pattern of alert and no-alert days and start on
\* Tuesday 2019-01-29; long tables take one of two alert profiles and start on
\* Monday 2019-01-21.  first_day is the day before the first row's.
LongAlerts(profile, k) ==
    IF profile = 1 THEN (k * k) % 4
    ELSE IF (k \div 3) % 2 = 0 THEN 0 ELSE k

ShortShapes ==
    UNION {{[n |-> n, first_day |-> 8,
             alerts |-> [k \in 1..n |-> bits[k] * (1 + (k % 3))]] :
                bits \in [1..n -> {0, 1}]} : n \in 1..MaxShortRows}

LongShapes ==
    {[n |-> n, first_day |-> 0, alerts |-> [k \in 1..n |-> LongAlerts(profile, k)]] :
        n \in 1..MaxRows, profile \in {1, 2}}

\* The cell of column c in the k-th row by date.
InputCell(shape, scenario, c, k) ==
    LET a == shape.alerts[k]
    IN  CASE c = "datetime" ->
                InputDate(shape.first_day +
                          (IF scenario = "duplicate_date" /\ k = 2 THEN 1 ELSE k))
          [] c = "pct" -> 60 + ((7 * k) % 30)
          [] c = "precip" -> (3 * k + 1) % 11
          [] c = "snow" -> (k * k) % 5
          [] c = "total_alerts" -> a
          [] c = "construction_alerts" -> a \div 2
          [] c = "technical_problem_alerts" -> a % 2
          [] c = "morning_rush_alerts" -> (a + 1) \div 2
          [] c = "class_end_time_alerts" -> k % 2

\* The table: its rows in date order, or latest first when reversed.
MakeInput(shape, scenario) ==
    [c \in ScenarioColumns(scenario) |->
        [r \in 1..shape.n |->
            InputCell(shape, scenario, c,
                      IF scenario = "reversed" THEN shape.n + 1 - r ELSE r)]]

FeatureInputs ==
    {MakeInput(shape, scenario) :
        shape \in ShortShapes \cup LongShapes, scenario \in Scenarios}

(***************************************************************************)
(* The feature build, stage by stage                                       *)
(***************************************************************************)
InitFeatures ==
    /\ input \in FeatureInputs
    /\ df = input
    /\ pc = "start"
    /\ err = NoError
    /\ order = <<>>
    /\ passed = NoTable
    /\ train = NoTrain
    /\ frames = NoFrames
    /\ catalog = STANDARD_PATTERNS
    /\ call = NoCall
    /\ sched_pc = "idle"
    /\ ret = 0

\* df = df.copy(): every stage and create_features assign their columns to a
\* copy, so the object the caller handed in keeps the cells it had.  written is
\* the table the stage built.
caller_table_shared(t, written) == written

caller_table(t, written) == t

Raise(key) ==
    /\ pc' = "raised"
    /\ err' = KeyError(key)
    /\ passed' = caller_table(df, df)
    /\ UNCHANGED <<df, order>>

\* create_advanced_features, line 200
AddTemporalFeatures ==
    /\ pc = "start"
    /\ LET key == first_missing(df, temporal_reads, 1)
       IN  IF key # "" THEN Raise(key)
           ELSE /\ df' = add_temporal_features(df)
                /\ passed' = caller_table(df, df')
                /\ pc' = "temporal"
                /\ UNCHANGED <<err, order>>
    /\ UNCHANGED <<input, schedule_vars, train_vars, concurrent_vars>>

\* create_advanced_features, line 204
AddClassScheduleFeatures ==
    /\ pc = "temporal"
    /\ LET key == first_missing(df, class_schedule_reads, 1)
       IN  IF key # "" THEN Raise(key)
           ELSE /\ df' = add_class_schedule_features(df)
                /\ passed' = caller_table(df, df')
                /\ pc' = "class_schedule"
                /\ UNCHANGED <<err, order>>
    /\ UNCHANGED <<input, schedule_vars, train_vars, concurrent_vars>>

\* create_advanced_features, line 208
AddTimeSeriesFeatures ==
    /\ pc = "class_schedule"
    /\ LET key == first_missing(df, time_series_reads, 1)
       IN  IF key # "" THEN Raise(key)
           ELSE \E ord \in sort_orders(date_keys(df)) :
                /\ df' = add_time_series_features(df, lag_days_default, ord)
                /\ passed' = caller_table(df, df')
                /\ order' = ord
                /\ pc' = "time_series"
                /\ UNCHANGED err
    /\ UNCHANGED <<input, schedule_vars, train_vars, concurrent_vars>>

\* create_advanced_features, line 212
AddAlertPatternFeatures ==
    /\ pc = "time_series"
    /\ LET key == first_missing(df, alert_pattern_reads, 1)
       IN  IF key # "" THEN Raise(key)
           ELSE \E ord \in sort_orders(date_keys(df)) :
                /\ df' = add_alert_pattern_features(df, ord)
                /\ passed' = caller_table(df, df')
                /\ order' = ord
                /\ pc' = "alert_pattern"
                /\ UNCHANGED err
    /\ UNCHANGED <<input, schedule_vars, train_vars, concurrent_vars>>

\* create_advanced_features, line 216, and the return
AddInteractionFeatures ==
    /\ pc = "alert_pattern"
    /\ LET key == first_missing(df, interaction_reads, 1)
       IN  IF key # "" THEN Raise(key)
           ELSE /\ df' = add_interaction_features(df)
                /\ passed' = caller_table(df, df')
                /\ pc' = "returned"
                /\ UNCHANGED <<err, order>>
    /\ UNCHANGED <<input, schedule_vars, train_vars, concurrent_vars>>

\* model.py: create_features on the caller's table
CreateFeatures ==
    /\ pc = "start"
    /\ LET key == first_missing(df, create_features_reads, 1)
       IN  IF key # "" THEN Raise(key)
           ELSE \E ord \in sort_orders(date_keys(df)) :
                /\ df' = create_features(df, ord)
                /\ passed' = caller_table(df, df')
                /\ order' = ord
                /\ pc' = "created"
                /\ UNCHANGED err
    /\ UNCHANGED <<input, schedule_vars, train_vars, concurrent_vars>>

NextFeatures ==
    \/ AddTemporalFeatures
    \/ AddClassScheduleFeatures
    \/ AddTimeSeriesFeatures
    \/ AddAlertPatternFeatures
    \/ AddInteractionFeatures
    \/ CreateFeatures

SpecFeatures == InitFeatures /\ [][NextFeatures]_vars

(***************************************************************************)
(* model.py: train_model                                                   *)
(*                                                                         *)
(* A table handed to train_model has float columns: a cell is Some(v) or   *)
(* NaN.  Reliabilities (column pct) are counted in tenths, so the cell     *)
(* Some(7) is the reliability 0.7 and One is the reliability 1.0.          *)
(***************************************************************************)
One == 10

candidate_feature_cols ==
    <<"precip", "snow",
      "day_of_week", "month", "is_weekend", "is_monday",
      "morning_class_starts", "afternoon_class_starts", "total_class_starts",
      "construction_alerts", "technical_problem_alerts", "total_alerts",
      "snow_lag_1d", "snow_lag_7d",
      "total_alerts_lag_1d", "total_alerts_lag_7d",
      "snow_rolling_3d", "snow_rolling_7d",
      "total_alerts_rolling_7d", "total_alerts_rolling_14d",
      "snow_std_7d",
      "alert_pattern_month",
      "days_since_last_alert",
      "snow_x_classes", "alerts_x_classes">>

\* [col for col in feature_cols if col in df.columns]
feature_cols(t) == SelectSeq(candidate_feature_cols, LAMBDA c : c \in Columns(t))

\* fillna(0) on one cell
fillna(cell, v) == IF cell = NaN THEN v ELSE cell[1]

\* df[feature_cols].fillna(0).values: one sequence of numbers per row.
feature_matrix(t, cols) ==
    [i \in DOMAIN t["pct"] |-> [k \in DOMAIN cols |-> fillna(t[cols[k]][i], 0)]]

\* ~np.isnan(y)
valid_mask(y) == [i \in DOMAIN y |-> y[i] # NaN]

\* a[mask]: the elements a boolean mask selects, in order.
mask_select(a, mask) ==
    LET pos == masked_positions(mask)
    IN  [k \in DOMAIN pos |-> a[pos[k]]]

\* The selector fitted after the split, on the training rows alone.
selector_fit_training_only(X, y) ==
    [X |-> SubSeq(X, 1, (Len(X) * 8) \div 10), y |-> SubSeq(y, 1, (Len(y) * 8) \div 10)]

\* selector.fit_transform(X, y): the rows handed to the selector, the ones
\* mutual_info_regression computes every column's score over.
selector_fit(X, y) == [X |-> X, y |-> y]

\* SelectKBest(mutual_info_regression, k): mutual_info_regression ranks the
\* columns with a nearest-neighbour estimate (n_neighbors = 3) that adds random
\* noise, so any k columns can come out on top; with fewer rows than
\* n_neighbors + 1, or with no column or no row, the fit raises ValueError.
n_neighbors == 3

select_k(X, cols) == IF Len(cols) < 20 THEN Len(cols) ELSE 20

selector_fails(X, cols) == Len(X) <= n_neighbors \/ Len(cols) = 0

\* get_support(indices=True): the indices of the k chosen columns, ascending.
supports(X, cols) ==
    {SelectSeq([i \in DOMAIN cols |-> i], LAMBDA i : i \in S) :
        S \in {T \in SUBSET (DOMAIN cols) : Cardinality(T) = select_k(X, cols)}}

\* The columns of X at the chosen indices.
transform(X, support) ==
    [i \in DOMAIN X |-> [k \in DOMAIN support |-> X[i][support[k]]]]

\* int(len(X_selected) * 0.8), with a split index one too large
split_idx_rounded_up(n) == ((n * 8) \div 10) + 1

\* int(len(X_selected) * 0.8): the double nearest 0.8 lies above 0.8 by less
\* than one part in 10^16, so the truncated product is floor(8 * len / 10).
split_idx_of(n) == (n * 8) \div 10

\* a[:split_idx], taken from the end of the array instead
slice_to_last(a, stop) == SubSeq(a, Len(a) - stop + 1, Len(a))

\* a[:split_idx]
slice_to(a, stop) == SubSeq(a, 1, stop)

\* a[split_idx:], starting one element early
slice_from_overlapping(a, start) == SubSeq(a, start, Len(a))

\* a[split_idx:]
slice_from(a, start) == SubSeq(a, start + 1, Len(a))

RECURSIVE np_sum(_, _)
np_sum(values, i) == IF i > Len(values) THEN 0 ELSE values[i] + np_sum(values, i + 1)

\* The rounding of the sums of float64.  The mean of n copies of a value that
\* is no binary fraction need not be that value ((0.7 + 0.7 + 0.7) / 3 is
\* 0.6999999999999998 and (0.1 + 0.1 + 0.1) / 3 is 0.10000000000000002); the
\* deviations of a constant vector from such a mean are one unit in the last
\* place each, and so is their standard deviation.  For the other vectors the
\* statistics are taken exactly.
is_binary_fraction(v) == \E k \in 0..4 : (v * (2 ^ k)) % One = 0

is_constant(values) == \A i, j \in DOMAIN values : values[i] = values[j]

float_roundings(values) ==
    IF Len(values) > 0 /\ is_constant(values) /\ ~is_binary_fraction(values[1])
    THEN {-1, 0, 1} ELSE {0}

\* np.mean: the exact mean and the units in the last place the sum is off by.
np_mean(values, rounding) ==
    [exact |-> Frac(np_sum(values, 1), Len(values)), ulps |-> rounding]

\* np.std (ddof = 0): the root of the mean squared deviation from np.mean.
np_std(values, rounding) ==
    LET n == Len(values)
        s == np_sum(values, 1)
        q == np_sum([i \in DOMAIN values |-> values[i] * values[i]], 1)
    IN  [sqrt_of |-> Frac(n * q - s * s, n * n),
         ulps |-> IF rounding = 0 THEN 0 ELSE 1]

\* The values the bin edges are computed from, were they all of y.
bin_targets_all(y, y_train) == y

\* np.mean(y_train), np.std(y_train): the bin edges come from y_train.
bin_targets(y, y_train) == y_train

\* bins=[0, train_mean - train_std, train_mean + train_std, 1.0]: an edge is a
\* number, or mean + sign * std kept as its two terms.
edge_bins(train_mean, train_std) ==
    <<0, [mean |-> train_mean, std |-> train_std, sign |-> -1],
         [mean |-> train_mean, std |-> train_std, sign |-> 1], One>>

sign_of(x) == IF x > 0 THEN 1 ELSE IF x < 0 THEN -1 ELSE 0

\* The sign of r - edge for an edge mean + sign * std.
compare_edge(r, edge) ==
    LET p == edge.mean.exact[1]
        q == edge.mean.exact[2]
        u == edge.std.sqrt_of[1]
        w == edge.std.sqrt_of[2]
        c == r * q - p
        squares == sign_of(c * c * w - u * q * q)
        tie == sign_of(0 - (edge.mean.ulps + edge.sign * edge.std.ulps))
    IN  IF edge.sign = -1
        THEN IF c > 0 \/ (c = 0 /\ u > 0) THEN 1
             ELSE IF c = 0 THEN tie
             ELSE IF squares > 0 THEN -1 ELSE IF squares < 0 THEN 1 ELSE tie
        ELSE IF c < 0 \/ (c = 0 /\ u > 0) THEN -1
             ELSE IF c = 0 THEN tie
             ELSE IF squares > 0 THEN 1 ELSE IF squares < 0 THEN -1 ELSE tie

ValueError(message) == [type |-> "ValueError", message |-> message]

\* pd.cut refuses edges that decrease, and after that edges that repeat; the
\* second message spells the edges out.
cut_error(bins) ==
    LET low_at_zero == compare_edge(0, bins[2])
        high_at_one == compare_edge(One, bins[3])
        low_is_high == bins[2].std.sqrt_of[1] = 0 /\ bins[2].std.ulps = 0
    IN  IF low_at_zero > 0 \/ high_at_one < 0
        THEN ValueError("bins must increase monotonically.")
        ELSE IF low_at_zero = 0 \/ high_at_one = 0 \/ low_is_high
        THEN [type |-> "ValueError", message |-> "Bin edges must be unique",
              bins |-> bins]
        ELSE NoError

\* pd.cut(..., labels=['Low', 'Medium', 'High']) on one value: the intervals are
\* (0, low], (low, high] and (high, 1.0], and a value in none of them gets no
\* label.
cut_value(r, bins) ==
    IF r <= bins[1] THEN NaN
    ELSE IF compare_edge(r, bins[2]) <= 0 THEN Some("Low")
    ELSE IF compare_edge(r, bins[3]) <= 0 THEN Some("Medium")
    ELSE IF r <= bins[4] THEN Some("High")
    ELSE NaN

cut(values, bins) == [i \in DOMAIN values |-> cut_value(values[i], bins)]

\* The estimators reject a label vector with a missing label: check_array
\* raises ValueError from clf_model.fit for y_train_cat, and from
\* accuracy_score for y_test_cat.
has_missing(labels) == \E i \in DOMAIN labels : labels[i] = NaN

\* The dictionary train_model returns.  The estimators and the scores stand
\* for what was fitted and scored: on how many rows, from which arrays.
bundle(loc) ==
    [reg_model |-> [estimator |-> "RandomForestRegressor", fit_rows |-> Len(loc.X_train)],
     clf_model |-> [estimator |-> "RandomForestClassifier", fit_rows |-> Len(loc.X_train)],
     scaler |-> [estimator |-> "StandardScaler", fit_rows |-> Len(loc.X_train)],
     feature_names |-> loc.selected_features,
     reg_r2 |-> [score |-> "r2_score", rows |-> Len(loc.y_test)],
     reg_rmse |-> [score |-> "sqrt(mean_squared_error)", rows |-> Len(loc.y_test)],
     reg_mae |-> [score |-> "mean_absolute_error", rows |-> Len(loc.y_test)],
     clf_accuracy |-> [score |-> "accuracy_score", rows |-> Len(loc.y_test_cat)],
     baseline_r2 |-> [score |-> "r2_score", rows |-> Len(loc.y_test)],
     baseline_rmse |-> [score |-> "sqrt(mean_squared_error)", rows |-> Len(loc.y_test)],
     reg_importances |-> [importances |-> Len(loc.selected_features)],
     clf_importances |-> [importances |-> Len(loc.selected_features)],
     classification_report |-> [score |-> "classification_report",
                                rows |-> Len(loc.y_test_cat)]]

(***************************************************************************)
(* The tables handed to train_model                                        *)
(***************************************************************************)
MaxTrainRows == 5

\* The reliabilities a row can have, in tenths; a row can also have none.
Targets == {0, 1, 5, 10}
TargetCells == {NaN} \cup {Some(v) : v \in Targets}

\* The cell of column c in the k-th row by date; the first day has no lag.
TrainCell(c, k, target) ==
    CASE c = "datetime" -> to_datetime_cell(InputDate(k))
      [] c = "pct" -> target
      [] c = "snow" -> Some((k * k) % 5)
      [] c = "total_alerts" -> Some(k % 3)
      [] c = "snow_lag_1d" -> IF k = 1 THEN NaN ELSE Some(((k - 1) * (k - 1)) % 5)

\* The table: its rows in date order, or latest first when reversed; targets[r]
\* is the target of the r-th row as listed.
MakeTrainInput(targets, dates) ==
    [c \in {"datetime", "pct", "snow", "total_alerts", "snow_lag_1d"} |->
        [r \in DOMAIN targets |->
            TrainCell(c, IF dates = "reversed" THEN Len(targets) + 1 - r ELSE r,
                      targets[r])]]

\* Every table in date order of up to MaxTrainRows rows, and the full-length
\* tables without a missing target latest first.
IsTrainShape(targets, dates) ==
    dates = "reversed" => Len(targets) = MaxTrainRows /\ \A r \in DOMAIN targets : targets[r] # NaN

(***************************************************************************)
(* train_model, step by step                                               *)
(***************************************************************************)
InitTrain ==
    /\ \E n \in 1..MaxTrainRows, dates \in {"sorted", "reversed"} :
        \E targets \in [1..n -> TargetCells] :
            /\ IsTrainShape(targets, dates)
            /\ input = MakeTrainInput(targets, dates)
    /\ df = input
    /\ pc = "called"
    /\ train = NoTrain
    /\ err = NoError
    /\ order = <<>>
    /\ passed = NoTable
    /\ frames = NoFrames
    /\ catalog = STANDARD_PATTERNS
    /\ call = NoCall
    /\ sched_pc = "idle"
    /\ ret = 0

TrainRaise(e) ==
    /\ pc' = "raised"
    /\ err' = e
    /\ UNCHANGED train

\* lines 89-92.  index is not a variable of the code: it names, for every row
\* of X and y, the row of df it was read from, and is cut as X and y are.
LoadArrays ==
    /\ pc = "called"
    /\ IF "pct" \notin Columns(df) THEN TrainRaise(KeyError("pct"))
       ELSE /\ train' = [feature_cols |-> feature_cols(df),
                         X |-> feature_matrix(df, feature_cols(df)),
                         y |-> df["pct"],
                         index |-> [i \in DOMAIN df["pct"] |-> i]]
            /\ pc' = "loaded"
            /\ UNCHANGED err
    /\ UNCHANGED <<input, df, order, passed, schedule_vars, concurrent_vars>>

\* lines 94-96
DropMissingTargets ==
    /\ pc = "loaded"
    /\ LET mask == valid_mask(train.y)
           kept == mask_select(train.y, mask)
       IN  train' = [train EXCEPT !.X = mask_select(train.X, mask),
                                  !.y = [i \in DOMAIN kept |-> kept[i][1]],
                                  !.index = mask_select(train.index, mask)]
    /\ pc' = "masked"
    /\ UNCHANGED <<input, df, err, order, passed, schedule_vars, concurrent_vars>>

\* lines 99-102.  scored is not a variable of the code: it keeps the rows the
\* selector's scores were computed over.
SelectFeatures ==
    /\ pc = "masked"
    /\ IF selector_fails(selector_fit(train.X, train.y).X, train.feature_cols)
       THEN TrainRaise(ValueError("SelectKBest.fit"))
       ELSE \E support \in supports(selector_fit(train.X, train.y).X, train.feature_cols) :
            /\ train' = [scored |-> selector_fit(train.X, train.y),
                         X_selected |-> transform(train.X, support),
                         selected_indices |-> support,
                         selected_features |->
                            [k \in DOMAIN support |-> train.feature_cols[support[k]]]]
                        @@ train
            /\ pc' = "selected"
            /\ UNCHANGED err
    /\ UNCHANGED <<input, df, order, passed, schedule_vars, concurrent_vars>>

\* lines 105-107
Split ==
    /\ pc = "selected"
    /\ LET split_idx == split_idx_of(Len(train.X_selected))
       IN  train' = [split_idx |-> split_idx,
                     X_train |-> slice_to(train.X_selected, split_idx),
                     X_test |-> slice_from(train.X_selected, split_idx),
                     y_train |-> slice_to(train.y, split_idx),
                     y_test |-> slice_from(train.y, split_idx),
                     index_train |-> slice_to(train.index, split_idx),
                     index_test |-> slice_from(train.index, split_idx)] @@ train
    /\ pc' = "split"
    /\ UNCHANGED <<input, df, err, order, passed, schedule_vars, concurrent_vars>>

\* lines 110-117
CutCategories ==
    /\ pc = "split"
    /\ \E rounding \in float_roundings(bin_targets(train.y, train.y_train)) :
        LET train_mean == np_mean(bin_targets(train.y, train.y_train), rounding)
            train_std == np_std(bin_targets(train.y, train.y_train), rounding)
            bins == edge_bins(train_mean, train_std)
        IN  IF cut_error(bins) # NoError THEN TrainRaise(cut_error(bins))
            ELSE /\ train' = [train_mean |-> train_mean,
                              train_std |-> train_std,
                              bins |-> bins,
                              y_train_cat |-> cut(train.y_train, bins),
                              y_test_cat |-> cut(train.y_test, bins)] @@ train
                 /\ pc' = "binned"
                 /\ UNCHANGED err
    /\ UNCHANGED <<input, df, order, passed, schedule_vars, concurrent_vars>>

\* lines 119-182: scaling, the two fits, the scores and the return
FitAndReturn ==
    /\ pc = "binned"
    /\ IF has_missing(train.y_train_cat) \/ has_missing(train.y_test_cat)
       THEN TrainRaise(ValueError("Input contains NaN"))
       ELSE /\ train' = [result |-> bundle(train)] @@ train
            /\ pc' = "trained"
            /\ UNCHANGED err
    /\ UNCHANGED <<input, df, order, passed, schedule_vars, concurrent_vars>>

NextTrain ==
    \/ LoadArrays
    \/ DropMissingTargets
    \/ SelectFeatures
    \/ Split
    \/ CutCategories
    \/ FitAndReturn

SpecTrain == InitTrain /\ [][NextTrain]_vars

(***************************************************************************)
(* Claims about the schedule catalog                                       *)
(***************************************************************************)
Returned(fn) == sched_pc = "returned" /\ call.fn = fn

\* The sum of the starts at every minute of the day t with from <= t < to.
RECURSIVE SumStartsAt(_, _, _)
SumStartsAt(from, to, d) ==
    IF from >= to THEN 0
    ELSE IF from + 1 = to THEN get_class_starts_at_time(from \div 60, from % 60, d)
    ELSE LET mid == (from + to) \div 2
         IN  SumStartsAt(from, mid, d) + SumStartsAt(mid, to, d)

\* The catalog letter of a weekday index; Saturday and Sunday have none.
WeekdayLetters == <<"M", "T", "W", "R", "F">>

\* The catalog entries that meet on day d and start at (hour, minute).
EntriesStartingAt(hour, minute, d) ==
    {i \in DOMAIN STANDARD_PATTERNS :
        /\ d \in 0..4
        /\ letter_in(WeekdayLetters[d + 1], STANDARD_PATTERNS[i].days)
        /\ split_time(STANDARD_PATTERNS[i].start) = <<hour, minute>>}

\* The catalog entries that meet on day d and start at a minute t, from <= t < to.
EntriesStartingIn(from, to, d) ==
    {i \in DOMAIN STANDARD_PATTERNS :
        LET hm == split_time(STANDARD_PATTERNS[i].start)
        IN  /\ d \in 0..4
            /\ letter_in(WeekdayLetters[d + 1], STANDARD_PATTERNS[i].days)
            /\ from <= 60 * hm[1] + hm[2]
            /\ 60 * hm[1] + hm[2] < to}

TypesOf(entries) == {STANDARD_PATTERNS[i].type : i \in entries}

\* C1: get_class_starts_in_window(h1,m1,h2,m2,d) is the sum of
\* get_class_starts_at_time(h,m,d) over every minute h1:m1 <= h:m < h2:m2,
\* for single-hour, multi-hour and empty windows alike.
C1_WindowIsSumOfMinutes ==
    Returned("in_window") =>
        ret = SumStartsAt(60 * call.hour + call.minute,
                          60 * call.end_hour + call.end_minute, call.day_of_week)

\* A multi-hour window whose start minute is after its end minute has returned
\* a positive count.
C1_Witness ==
    /\ Returned("in_window")
    /\ call.hour < call.end_hour
    /\ call.minute > call.end_minute
    /\ ret > 0

\* C2: on Saturday (5) and Sunday (6) both functions return 0.
C2_WeekendIsZero ==
    (sched_pc = "returned" /\ call.day_of_week \in {5, 6}) => ret = 0

\* The morning window 08:00-10:00 was counted on a Saturday.
C2_Witness ==
    /\ Returned("in_window")
    /\ call.day_of_week = 5
    /\ <<call.hour, call.minute, call.end_hour, call.end_minute>> = <<8, 0, 10, 0>>

\* C3: get_class_starts_at_time returns the number of catalog entries whose
\* days include the weekday's letter and whose start is (hour, minute) exactly.
C3_AtTimeCountsEntries ==
    Returned("at_time") =>
        /\ ret \in Nat
        /\ ret = Cardinality(EntriesStartingAt(call.hour, call.minute, call.day_of_week))

\* A call at a single-digit hour and minute returned a positive count.
C3_Witness ==
    /\ Returned("at_time")
    /\ call.hour < 10
    /\ call.minute < 10
    /\ call.minute > 0
    /\ ret > 0

IsTuesdayEightToNine ==
    /\ Returned("in_window")
    /\ <<call.hour, call.minute, call.end_hour, call.end_minute>> = <<8, 0, 9, 0>>
    /\ call.day_of_week = 1

\* C4 as stated: Tuesday 08:00-09:00 returns 2.
C4_TuesdayWindowIsTwo ==
    IsTuesdayEightToNine => ret = 2

\* C4 as amended: Tuesday 08:00-09:00 returns 3, one type-B, one type-C and
\* one type-E pattern, all starting at 08:00.
C4_TuesdayWindowIsThree ==
    IsTuesdayEightToNine =>
        /\ ret = 3
        /\ Cardinality(EntriesStartingIn(8 * 60, 9 * 60, 1)) = 3
        /\ TypesOf(EntriesStartingIn(8 * 60, 9 * 60, 1)) = {"B", "C", "E"}
        /\ EntriesStartingIn(8 * 60, 9 * 60, 1) = EntriesStartingAt(8, 0, 1)

C4_Witness == IsTuesdayEightToNine

IsMondayTenTen ==
    /\ Returned("at_time")
    /\ <<call.hour, call.minute, call.day_of_week>> = <<10, 10, 0>>

\* C5: Monday 10:10 returns 2, one type-A and one type-D pattern.
C5_MondayTenTenIsTwo ==
    IsMondayTenTen =>
        /\ ret = 2
        /\ Cardinality(EntriesStartingAt(10, 10, 0)) = 2
        /\ TypesOf(EntriesStartingAt(10, 10, 0)) = {"A", "D"}

C5_Witness == IsMondayTenTen

(***************************************************************************)
(* Claims about the feature builder                                        *)
(***************************************************************************)
SeqToSet(q) == {q[i] : i \in DOMAIN q}

LagSources ==
    {"precip", "snow", "total_alerts", "construction_alerts", "technical_problem_alerts"}
RollingSources == {"precip", "snow", "total_alerts"}
StdSources == {"precip", "snow"}

\* The lag, rolling-mean and rolling-std columns of add_time_series_features.
TimeSeriesFeatures ==
    {lag_name(c, lag) : c \in LagSources, lag \in SeqToSet(lag_days_default)} \cup
    {rolling_name(c, w) : c \in RollingSources, w \in SeqToSet(rolling_windows)} \cup
    {std_name(c, w) : c \in StdSources, w \in SeqToSet(std_windows)}

\* The lag, rolling-mean and rolling-std columns of create_features.
ModelTimeSeriesFeatures ==
    {"snow_lag_1d", "snow_lag_7d", "total_alerts_lag_1d", "total_alerts_lag_7d",
     "snow_rolling_3d", "snow_rolling_7d", "total_alerts_rolling_7d",
     "total_alerts_rolling_14d", "snow_std_7d"}

\* The table add_time_series_features was given: the caller's table after the
\* first two stages.
BeforeTimeSeries == add_class_schedule_features(add_temporal_features(input))

\* Table t with the source values of every row dated after day changed.
ChangedAfter(t, day) ==
    LET keys == date_keys(t)
    IN  [c \in Columns(t) |->
            IF c \in LagSources
            THEN [r \in DOMAIN t[c] |-> IF keys[r] > day THEN 2 * t[c][r] + 1 ELSE t[c][r]]
            ELSE t[c]]

\* Tables a and b have the same cells in the columns cols of rows 1..i.
AgreeUpTo(a, b, cols, i) ==
    [c \in cols |-> SubSeq(a[c], 1, i)] = [c \in cols |-> SubSeq(b[c], 1, i)]

DatesAscend(t) ==
    \A i \in 1..(Rows(t) - 1) : toordinal(t["datetime"][i]) <= toordinal(t["datetime"][i + 1])

HasDuplicateDates(t) ==
    \E i, j \in DOMAIN t["datetime"] : i # j /\ t["datetime"][i] = t["datetime"][j]

\* C6: the lag, rolling-mean and rolling-std cells of row i do not change when
\* the source values of the rows dated after row i change, in
\* add_time_series_features and in create_features.
C6_Causality ==
    /\ pc = "time_series" =>
        \A i \in 1..Rows(df) :
            \A other \in {add_time_series_features(
                            ChangedAfter(BeforeTimeSeries, toordinal(df["datetime"][i])),
                            lag_days_default, order)} :
                AgreeUpTo(df, other, TimeSeriesFeatures, i)
    /\ pc = "created" =>
        \A i \in 1..Rows(df) :
            \A other \in {create_features(
                            ChangedAfter(input, toordinal(df["datetime"][i])), order)} :
                AgreeUpTo(df, other, ModelTimeSeriesFeatures, i)

\* A table given latest date first got its time-series features, and its rows
\* reach back past the longest lag.
C6_Witness ==
    /\ pc = "time_series"
    /\ Rows(df) > 7
    /\ ~DatesAscend(Assign(input, "datetime", to_datetime(input["datetime"])))
    /\ df["precip_lag_7d"][8] # NaN

\* C7: a table with two rows of the same date makes the feature builder raise
\* before it sorts, so that no sorting stage completes and nothing is returned.
C7_DuplicateDatesRaise ==
    HasDuplicateDates(input) =>
        pc \notin {"time_series", "alert_pattern", "returned", "created"}

\* Some column of the full schema other than the date is missing from the input.
LacksSourceColumn(t) == "datetime" \in Columns(t) /\ FullColumns \ Columns(t) # {}

\* C8: a missing source column never fails the build; its feature family is
\* skipped and the build goes on.
C8_MissingColumnNeverFails ==
    LacksSourceColumn(input) => pc # "raised"

\* C9: given exactly the minimum schema with unique dates the build never
\* raises, and runs all five stages.
C9_MinimumSchemaCompletes ==
    (Columns(input) = MinimumColumns /\ ~HasDuplicateDates(input)) => pc # "raised"

\* C10: in the date-sorted table, for every lag and lagged source column, the
\* lagged cell of row i is the source cell of row i - lag once lag rows precede
\* row i, and is missing on the first lag rows.
LagHolds(t, source, lag) ==
    \A i \in 1..Rows(t) :
        t[lag_name(source, lag)][i] =
            IF i > lag THEN Some(t[source][i - lag]) ELSE NaN

C10_LagProperty ==
    /\ pc = "time_series" =>
        /\ DatesAscend(df)
        /\ \A source \in LagSources : \A lag \in {1, 2, 3, 7} : LagHolds(df, source, lag)
    /\ pc = "created" =>
        /\ DatesAscend(df)
        /\ \A source \in {"snow", "total_alerts"} : \A lag \in {1, 7} :
                LagHolds(df, source, lag)

\* Both builders lagged a table of more than seven rows by seven.
C10_Witness ==
    /\ pc \in {"time_series", "created"}
    /\ Rows(df) > 7
    /\ df["snow_lag_7d"][8] = Some(df["snow"][1])
    /\ df["snow_lag_7d"][7] = NaN
    /\ df["snow"][1] # df["snow"][2]

RECURSIVE SumRange(_, _, _)
SumRange(column, from, to) ==
    IF from > to THEN 0 ELSE column[from] + SumRange(column, from + 1, to)

\* The average of the window rows of the column that end at row i.
WindowAverage(column, window, i) ==
    LET first == IF i - window + 1 > 1 THEN i - window + 1 ELSE 1
    IN  Frac(SumRange(column, first, i), i - first + 1)

RollingMeanHolds(t, source, window) ==
    \A i \in 1..Rows(t) :
        t[rolling_name(source, window)][i] = Some(WindowAverage(t[source], window, i))

\* C11: in the date-sorted table add_time_series_features and create_features
\* return, the rolling mean of every rolled source column and window at row i is
\* the average of the source over the window rows ending at i (fewer at the
\* start of the series), so the first row's rolling mean is its own value.
C11_RollingMeanProperty ==
    /\ pc = "time_series" =>
        /\ DatesAscend(df)
        /\ \A source \in RollingSources, window \in {3, 7, 14} :
                /\ RollingMeanHolds(df, source, window)
                /\ df[rolling_name(source, window)][1] = Some(Frac(df[source][1], 1))
    /\ pc = "created" =>
        /\ DatesAscend(df)
        /\ RollingMeanHolds(df, "snow", 3)
        /\ RollingMeanHolds(df, "snow", 7)
        /\ RollingMeanHolds(df, "total_alerts", 7)
        /\ RollingMeanHolds(df, "total_alerts", 14)

\* A series longer than the longest window, whose first row the 14-day window
\* has dropped at row 15.
C11_Witness ==
    /\ pc \in {"time_series", "created"}
    /\ Rows(df) > 14
    /\ df["total_alerts"][1] > 0
    /\ df["total_alerts_rolling_14d"][15] =
            Some(WindowAverage(df["total_alerts"], 14, 15))
    /\ df["total_alerts_rolling_14d"][15] #
            Some(WindowAverage(df["total_alerts"], 15, 15))

(***************************************************************************)
(* Claims about train_model                                                *)
(***************************************************************************)
Cut == pc \in {"binned", "trained"}
SplitDone == pc \in {"split", "binned", "trained"}

\* The category the binning contract gives a reliability r: Low up to
\* low = mean - std, Medium above low up to high = mean + std, High above.
ReliabilityCategory(r, bins) ==
    IF compare_edge(r, bins[2]) <= 0 THEN Some("Low")
    ELSE IF compare_edge(r, bins[3]) <= 0 THEN Some("Medium")
    ELSE Some("High")

\* C12: every training and evaluation row with a reliability in [0, 1] is
\* labelled Low when r <= low, Medium when low < r <= high and High when
\* r > high, so each row has exactly one of the three categories.
C12_BinningLabels ==
    Cut =>
        /\ \A i \in DOMAIN train.y_train :
                train.y_train_cat[i] = ReliabilityCategory(train.y_train[i], train.bins)
        /\ \A i \in DOMAIN train.y_test :
                train.y_test_cat[i] = ReliabilityCategory(train.y_test[i], train.bins)

\* The bin edges a run of train_model can compute for the targets y (none
\* missing), by lines 105-117.
BinsOfRun(y) ==
    LET y_train == slice_to(y, split_idx_of(Len(y)))
        fit == bin_targets(y, y_train)
    IN  {edge_bins(np_mean(fit, rounding), np_std(fit, rounding)) :
            rounding \in float_roundings(fit)}

\* C13: the bin edges depend on the training partition only: a run whose
\* training rows are the same and whose evaluation targets are any others
\* computes the same (low, high).
C13_BoundariesFromTrainingOnly ==
    Cut =>
        \A other \in [DOMAIN train.y_test -> Targets] :
            BinsOfRun(train.y_train \o other) = BinsOfRun(train.y_train \o train.y_test)
            /\ train.bins \in BinsOfRun(train.y_train \o other)

C13_Witness ==
    /\ pc = "trained"
    /\ Len(train.y_test) > 0
    /\ train.y_test[1] # train.y_train[1]
    /\ train.y_test_cat[1] = Some("High")

DateOf(t, i) == toordinal(to_datetime_cell(t["datetime"][i]))

StrictlyDateSorted(t) ==
    \A i \in 1..(Rows(t) - 1) : DateOf(t, i) < DateOf(t, i + 1)

\* C14: when the table handed to train_model is sorted by date, every
\* evaluation row is dated after every training row.
C14_SplitCausality ==
    (SplitDone /\ StrictlyDateSorted(input)) =>
        \A i \in DOMAIN train.index_test, j \in DOMAIN train.index_train :
            DateOf(input, train.index_test[i]) > DateOf(input, train.index_train[j])

C14_Witness ==
    /\ pc = "split"
    /\ StrictlyDateSorted(input)
    /\ Len(train.index_train) = 4
    /\ Len(train.index_test) = 1

\* The rows of the table whose target is not missing, in table order.
RowsWithTarget(t) == masked_positions([i \in DOMAIN t["pct"] |-> t["pct"][i] # NaN])

\* C15: the rows with a missing target are dropped, the first floor(0.8 * n) of
\* the n rows left are the training partition and the others the evaluation
\* partition, in table order: disjoint, covering the n rows, none reordered.
C15_PositionalSplit ==
    SplitDone =>
        LET kept == RowsWithTarget(input)
            n == Len(kept)
            k == (4 * n) \div 5
        IN  /\ train.index = kept
            /\ train.index_train = SubSeq(kept, 1, k)
            /\ train.index_test = SubSeq(kept, k + 1, n)
            /\ train.index_train \o train.index_test = kept
            /\ train.y_train \o train.y_test = [i \in 1..n |-> input["pct"][kept[i]][1]]
            /\ train.X_train \o train.X_test = train.X_selected
            /\ Len(train.X_train) = k /\ Len(train.y_train) = k

C15_Witness ==
    /\ pc = "split"
    /\ Rows(input) = 5
    /\ input["pct"][2] = NaN
    /\ train.index_train = <<1, 3, 4>>
    /\ train.index_test = <<5>>

\* The data-quality events of a run: the missing feature values fillna(0)
\* filled, and the rows dropped for a missing target.
FilledValues(t) ==
    Cardinality({<<c, i>> \in (SeqToSet(feature_cols(t)) \X DOMAIN t["pct"]) :
                    t[c][i] = NaN})

DroppedRows(t) == Cardinality({i \in DOMAIN t["pct"] : t["pct"][i] = NaN})

\* C16: the returned bundle reports the number of missing feature values
\* filled with zero and the number of rows dropped for a missing target.
C16_QualityCountsReported ==
    pc = "trained" =>
        \E filled, dropped \in DOMAIN train.result \ {"feature_names"} :
            /\ filled # dropped
            /\ train.result[filled] = [count |-> FilledValues(input)]
            /\ train.result[dropped] = [count |-> DroppedRows(input)]

\* C17: when all training targets are equal (low = high), train_model raises
\* an error that carries the statistic and returns no bundle.
C17_ZeroVarianceIsFatal ==
    (SplitDone /\ is_constant(train.y_train)) =>
        /\ ~Cut
        /\ pc = "raised" => "bins" \in DOMAIN err

(***************************************************************************)
(* Claims about the feature builder as a whole                             *)
(***************************************************************************)
\* The tables a run of create_advanced_features on t can return.
RunsOf(t) ==
    LET before == add_class_schedule_features(add_temporal_features(t))
    IN  UNION {{create_advanced_features(t, ord1, ord2) :
                    ord2 \in sort_orders(date_keys(
                                add_time_series_features(before, lag_days_default, ord1)))} :
                ord1 \in sort_orders(date_keys(before))}

StageDone == pc \in {"temporal", "class_schedule", "time_series", "alert_pattern", "returned"}

RowsDated(t, day) == {i \in 1..Rows(t) : DateOf(t, i) = day}

TemporalColumns ==
    {"day_of_week", "month", "day_of_month", "is_weekend", "is_monday", "is_friday",
     "is_fall_semester", "is_spring_semester", "is_summer"}

ClassScheduleColumns ==
    {"morning_class_starts", "midday_class_starts", "afternoon_class_starts",
     "evening_class_starts", "total_class_starts", "is_mwf_day", "is_tr_day"}

AlertPatternColumns ==
    {dow_pattern_name(day) : day \in 0..6} \cup {month_pattern_name(month) : month \in 1..12}
    \cup {"days_since_last_alert", "alert_streak"}

InteractionColumns == DOMAIN interaction_factors \cup {"alerts_x_weekday_x_classes"}

\* C19: no stage of create_advanced_features drops or adds a row: after every
\* stage the table has the input's number of rows, as many rows of each date as
\* the input and every input column, and the returned table has the derived
\* columns of all five stages besides.
C19_RowsAndColumnsKept ==
    StageDone =>
        /\ Rows(df) = Rows(input)
        /\ \A c \in Columns(df) : Len(df[c]) = Rows(input)
        /\ \A i \in 1..Rows(input) :
                Cardinality(RowsDated(df, DateOf(input, i))) =
                Cardinality(RowsDated(input, DateOf(input, i)))
        /\ Columns(input) \subseteq Columns(df)
        /\ pc = "returned" =>
                Columns(df) = Columns(input) \cup TemporalColumns \cup ClassScheduleColumns
                              \cup TimeSeriesFeatures \cup AlertPatternColumns
                              \cup InteractionColumns

C19_Witness ==
    /\ pc = "returned"
    /\ Rows(df) > 14
    /\ DateOf(input, 1) > DateOf(input, 2)
    /\ DateOf(df, 1) < DateOf(df, 2)

AloneValue(c) ==
    IF c.fn = "at_time" THEN get_class_starts_at_time(c.hour, c.minute, c.day_of_week)
    ELSE get_class_starts_in_window(c.hour, c.minute, c.end_hour, c.end_minute,
                                    c.day_of_week)

\* C21: however the passes of concurrent callers interleave, every call
\* returns the value it returns when run alone with its arguments, and the list
\* STANDARD_PATTERNS stays as it is.
C21_ConcurrentCallsArePure ==
    /\ catalog = STANDARD_PATTERNS
    /\ \A k \in Callers :
            frames[k].at = "returned" => frames[k].ret = AloneValue(frames[k].call)

\* The window caller has returned its three starts while another caller, which
\* started before that, is still inside its loop over the list.
C21_Witness ==
    /\ frames[1].at = "returned"
    /\ frames[1].ret = 3
    /\ \E k \in Callers \ {1} :
            frames[k].at = "scan" /\ frames[k].next > 1 /\ frames[k].next < Len(catalog)

(***************************************************************************)
(* Claims about the derived columns                                        *)
(***************************************************************************)
WindowColumns ==
    {"morning_class_starts", "midday_class_starts", "afternoon_class_starts",
     "evening_class_starts"}

IsWeekend(t, i) == dayofweek(to_datetime_cell(t["datetime"][i])) >= 5

\* The class starts of the four windows on the date of row i.
FourWindowStarts(t, i) ==
    LET d == dayofweek(to_datetime_cell(t["datetime"][i]))
    IN  class_starts(morning_window, d) + class_starts(midday_window, d)
        + class_starts(afternoon_window, d) + class_starts(evening_window, d)

\* The table of add_class_schedule_features: weekend rows have 0 in the four
\* window columns and total_class_starts is the sum of the four.
ScheduleCountsHold(t) ==
    \A i \in 1..Rows(t) :
        /\ IsWeekend(t, i) => \A c \in WindowColumns : t[c][i] = 0
        /\ t["total_class_starts"][i] =
                t["morning_class_starts"][i] + t["midday_class_starts"][i]
                + t["afternoon_class_starts"][i] + t["evening_class_starts"][i]
        /\ t["total_class_starts"][i] = FourWindowStarts(t, i)

\* C22: in every record of add_class_schedule_features and of create_features
\* the window counts are 0 on weekend dates and total_class_starts is the sum of
\* the four window counts (08-10, 10-12, 12-15, 15-18) of the record's date.
C22_WindowCountsAndTotal ==
    /\ pc \in {"class_schedule", "time_series", "alert_pattern", "returned"} =>
            ScheduleCountsHold(df)
    /\ pc = "created" =>
            \A i \in 1..Rows(df) :
                /\ IsWeekend(df, i) =>
                        \A c \in WindowColumns \cap Columns(df) : df[c][i] = 0
                /\ df["total_class_starts"][i] = FourWindowStarts(df, i)

\* The part of C22 that is about add_class_schedule_features alone.
C22_FeatureBuilderPart ==
    pc \in {"class_schedule", "time_series", "alert_pattern", "returned"} =>
        ScheduleCountsHold(df)

AlertPatternDone == pc \in {"alert_pattern", "returned"}

AlertPresent(t, i) == t["total_alerts"][i] > 0

\* The number of consecutive rows ending at row i that share row i's
\* alert-present boolean.
RunLength(t, i) ==
    LET breaks == {j \in 1..(i - 1) : AlertPresent(t, j) # AlertPresent(t, i)}
        last_break == IF breaks = {} THEN 0
                      ELSE CHOOSE j \in breaks : \A k \in breaks : k <= j
    IN  i - last_break

\* C23: alert_streak at row i is the length of the run of consecutive rows
\* ending at i that share row i's alert-present boolean, on runs of alert days
\* and on runs of no-alert days alike, so it is 1 at every change of the boolean.
C23_AlertStreakIsRunLength ==
    AlertPatternDone =>
        \A i \in 1..Rows(df) : df["alert_streak"][i] = RunLength(df, i)

\* The part of C23 that holds: on alert rows the streak is the run length.
C23_AlertRunsPart ==
    AlertPatternDone =>
        \A i \in 1..Rows(df) :
            AlertPresent(df, i) => df["alert_streak"][i] = RunLength(df, i)

\* The rows up to i that have an alert.
AlertRowsUpTo(t, i) == {j \in 1..i : AlertPresent(t, j)}

DaysSinceHolds(t) ==
    \A i \in 1..Rows(t) :
        /\ AlertRowsUpTo(t, i) # {} =>
              t["days_since_last_alert"][i] =
                  i - (CHOOSE j \in AlertRowsUpTo(t, i) : \A k \in AlertRowsUpTo(t, i) : k <= j)
        /\ AlertPresent(t, i) => t["days_since_last_alert"][i] = 0
        /\ (i > 1 /\ ~AlertPresent(t, i)) =>
              t["days_since_last_alert"][i] = t["days_since_last_alert"][i - 1] + 1

\* C24: in the date-sorted table add_alert_pattern_features and create_features
\* return, days_since_last_alert at row i is i - j for the last row j <= i with
\* total_alerts > 0; it is 0 on every row that has alerts and one more than the
\* row before on every no-alert row after it.
C24_DaysSinceLastAlert ==
    /\ AlertPatternDone => DatesAscend(df) /\ DaysSinceHolds(df)
    /\ pc = "created" => DatesAscend(df) /\ DaysSinceHolds(df)

C24_Witness ==
    /\ pc = "created"
    /\ Rows(df) = 6
    /\ AlertPresent(df, 2)
    /\ df["days_since_last_alert"][5] = 3
    /\ AlertPresent(df, 6)

\* The rows up to i whose column key holds value.
GroupRowsUpTo(t, key, value, i) == {j \in 1..i : t[key][j] = value}

RECURSIVE SumOver(_, _)
SumOver(column, rows) ==
    IF rows = {} THEN 0
    ELSE LET j == CHOOSE j \in rows : TRUE
         IN  column[j] + SumOver(column, rows \ {j})

\* The mean of total_alerts over the rows up to i whose key holds value.
GroupMean(t, key, value, i) ==
    LET rows == GroupRowsUpTo(t, key, value, i)
    IN  Some(Frac(SumOver(t["total_alerts"], rows), Cardinality(rows)))

PatternHolds(t, name, key, value) ==
    \A i \in 1..Rows(t) :
        t[name][i] = IF t[key][i] = value THEN GroupMean(t, key, value, i)
                     ELSE Some(Frac(0, 1))

\* C25: alert_pattern_dow_d at a row whose weekday is d is the mean of
\* total_alerts over the rows up to and including it whose weekday is d, and
\* 0.0 at every other row; alert_pattern_month_m is the same with the calendar
\* months 1..12.
C25_ExpandingGroupMeans ==
    AlertPatternDone =>
        /\ \A d \in 0..6 : PatternHolds(df, dow_pattern_name(d), "day_of_week", d)
        /\ \A m \in 1..12 : PatternHolds(df, month_pattern_name(m), "month", m)

C25_Witness ==
    /\ pc = "alert_pattern"
    /\ Rows(df) = 15
    /\ df["day_of_week"][15] = 0
    /\ df["alert_pattern_dow_0"][15] = GroupMean(df, "day_of_week", 0, 15)
    /\ df["alert_pattern_dow_0"][15] # df["alert_pattern_dow_0"][8]
    /\ df["alert_pattern_dow_0"][14] = Some(Frac(0, 1))
    /\ \E i \in 1..Rows(df) : df["month"][i] = 2 /\ df["alert_pattern_month_2"][i] # Some(Frac(0, 1))

(***************************************************************************)
(* Claims about feature selection and the bin edges                        *)
(***************************************************************************)
\* The table with the cell of column c in row r replaced.
WithCell(t, c, r, cell) == [t EXCEPT ![c][r] = cell]

\* The tables that differ from t in one cell of one row of rows: another
\* target that is not missing, or another snow value.
VariantsIn(t, rows) ==
    ({WithCell(t, "pct", r, Some(v)) : r \in rows, v \in Targets}
     \cup {WithCell(t, "snow", r, Some(v)) : r \in rows, v \in 0..4}) \ {t}

\* What train_model reads from table t up to the selector: the rows that remain
\* after the missing targets are dropped, and the rows the selector scores.
RemainingOf(t) ==
    LET y == t["pct"]
        mask == valid_mask(y)
        kept == mask_select(y, mask)
    IN  [X |-> mask_select(feature_matrix(t, feature_cols(t)), mask),
         y |-> [i \in DOMAIN kept |-> kept[i][1]]]

ScoredOf(t) == selector_fit(RemainingOf(t).X, RemainingOf(t).y)

\* The training-partition rows of table t, before any column is dropped.
TrainingRowsOf(t) ==
    LET r == RemainingOf(t)
    IN  [X |-> slice_to(r.X, split_idx_of(Len(r.X))),
         y |-> slice_to(r.y, split_idx_of(Len(r.y)))]

CutAttempted ==
    /\ pc \in {"binned", "trained", "raised"}
    /\ "split_idx" \in DOMAIN train

\* C27: when the training targets lie in [0, 1] and are not all equal, the bin
\* edges 0, mean - std, mean + std, 1.0 are strictly increasing, and the binning
\* step does not fail.
C27_EdgesStrictlyIncrease ==
    (CutAttempted /\ ~is_constant(train.y_train)) =>
        /\ "bins" \in DOMAIN train
        /\ compare_edge(0, train.bins[2]) < 0
        /\ train.bins[2].std.sqrt_of[1] > 0
        /\ compare_edge(One, train.bins[3]) > 0

\* The part of C27 that holds: when the binning step succeeds the edges are
\* strictly increasing.
C27_EdgesOfCompletedCut ==
    Cut =>
        /\ compare_edge(0, train.bins[2]) < 0
        /\ train.bins[2].std.sqrt_of[1] > 0 \/ train.bins[2].std.ulps # 0
        /\ compare_edge(One, train.bins[3]) > 0

(***************************************************************************)
(* Claims that relate two computations                                     *)
(***************************************************************************)
MinuteOfDay(hour, minute) == 60 * hour + minute

\* total_class_starts as add_class_schedule_features derives it for a one-row
\* table dated the k-th day from Sunday 2019-01-20.
TotalClassStartsOfDay(k) ==
    add_class_schedule_features([datetime |-> <<InputDate(k)>>])["total_class_starts"][1]

\* Monday to Friday, 2019-01-21 to 2019-01-25.
TotalClassStartsOn ==
    <<TotalClassStartsOfDay(1), TotalClassStartsOfDay(2), TotalClassStartsOfDay(3),
      TotalClassStartsOfDay(4), TotalClassStartsOfDay(5)>>

\* The times a window is cut in two at: on a class start (09:05, 09:30) and off.
CutMinutes == {5, 30}
CutTimes == WindowHours \X CutMinutes

WholeDayCount ==
    <<get_class_starts_in_window(8, 0, 18, 0, 0), get_class_starts_in_window(8, 0, 18, 0, 1),
      get_class_starts_in_window(8, 0, 18, 0, 2), get_class_starts_in_window(8, 0, 18, 0, 3),
      get_class_starts_in_window(8, 0, 18, 0, 4)>>

\* C28: window counts are additive over adjacent windows: for times
\* a <= b <= c the count of the window from a to c is the count from a to b
\* plus the count from b to c; and on every weekday the total_class_starts of
\* add_class_schedule_features is the count of the one window 08:00-18:00.
C28_WindowsAreAdditive ==
    (Returned("in_window") /\
     MinuteOfDay(call.hour, call.minute) <= MinuteOfDay(call.end_hour, call.end_minute)) =>
        /\ \A b \in CutTimes :
              (/\ MinuteOfDay(call.hour, call.minute) <= MinuteOfDay(b[1], b[2])
               /\ MinuteOfDay(b[1], b[2]) <= MinuteOfDay(call.end_hour, call.end_minute)) =>
                 ret = get_class_starts_in_window(call.hour, call.minute, b[1], b[2],
                                                  call.day_of_week)
                       + get_class_starts_in_window(b[1], b[2], call.end_hour,
                                                    call.end_minute, call.day_of_week)
        /\ call.day_of_week < 5 =>
              TotalClassStartsOn[call.day_of_week + 1] = WholeDayCount[call.day_of_week + 1]

C28_Witness ==
    /\ Returned("in_window")
    /\ call.day_of_week = 1
    /\ <<call.hour, call.minute, call.end_hour, call.end_minute>> = <<8, 0, 10, 10>>
    /\ ret = 5
    /\ get_class_starts_in_window(8, 0, 9, 5, 1) = 4
    /\ get_class_starts_in_window(9, 5, 10, 10, 1) = 1
    /\ TotalClassStartsOn[2] = 16

TimeSeriesDone == pc \in {"time_series", "alert_pattern", "returned"}

\* The number of rows in the window of the given length that ends at row i.
ObservationsAt(i, window) == IF i < window THEN i ELSE window

\* The column is missing on the first row and defined wherever the window
\* holds two observations or more.
StdDefinedFromSecondRow(t, name, window) ==
    /\ t[name][1] = NaN
    /\ \A i \in 1..Rows(t) : ObservationsAt(i, window) >= 2 => t[name][i] # NaN

\* C29: in the date-sorted series add_time_series_features returns, the
\* rolling standard deviations (precip_std_7d, precip_std_14d, snow_std_7d,
\* snow_std_14d) are missing on the first row, whose window holds one
\* observation, and defined on every later row, whose window holds two or more;
\* so is create_features' snow_std_7d.  The later stages keep this when no two
\* rows share a date.
C29_RollingStdDefinedness ==
    /\ (pc = "time_series" \/ (TimeSeriesDone /\ ~HasDuplicateDates(input))) =>
          /\ DatesAscend(df)
          /\ \A source \in StdSources, window \in SeqToSet(std_windows) :
                StdDefinedFromSecondRow(df, std_name(source, window), window)
    /\ pc = "created" =>
          /\ DatesAscend(df)
          /\ StdDefinedFromSecondRow(df, "snow_std_7d", 7)

C29_Witness ==
    /\ pc = "time_series"
    /\ Rows(df) = 15
    /\ DateOf(input, 1) > DateOf(input, 2)
    /\ df["snow_std_7d"][1] = NaN
    /\ df["snow_std_7d"][2] # NaN
    /\ df["precip_std_14d"][15] # NaN

\* The two monthly patterns agree row by row: created is create_features'
\* table and built add_alert_pattern_features' table of the same sorted rows.
MonthlyPatternsAgree(created, built) ==
    /\ Rows(created) = Rows(built)
    /\ \A i \in 1..Rows(created) :
          /\ created["datetime"][i] = built["datetime"][i]
          /\ created["alert_pattern_month"][i] =
                built[month_pattern_name(built["month"][i])][i]

\* C30: on the same date-sorted rows, create_features' alert_pattern_month at
\* every row equals add_alert_pattern_features' alert_pattern_month_m for that
\* row's calendar month m.
C30_MonthlyPatternsAgree ==
    /\ pc = "created" =>
          MonthlyPatternsAgree(df, add_alert_pattern_features(add_temporal_features(input),
                                                              order))
    /\ pc = "alert_pattern" =>
          MonthlyPatternsAgree(create_features(df, [i \in 1..Rows(df) |-> i]), df)

C30_Witness ==
    /\ pc = "created"
    /\ Rows(df) = 15
    /\ DateOf(input, 1) > DateOf(input, 2)
    /\ df["month"][11] = 1
    /\ df["month"][12] = 2
    /\ df["alert_pattern_month"][11] # df["alert_pattern_month"][12]
    /\ df["alert_pattern_month"][15] # Some(Frac(0, 1))
    /\ df["alert_pattern_month"][15] =
          add_alert_pattern_features(add_temporal_features(input),
                                     order)["alert_pattern_month_2"][15]
====
